---- MODULE Spec2Model ----
(***************************************************************************)
(* Model of script.js: the inventory / permissions store, its entity       *)
(* operations, the balance aggregator computeBalances and the ledger       *)
(* reconstructor getItemCard, together with the UI handlers that drive     *)
(* them (entry form, edit panel, item form, CSV import, backup restore).   *)
(*                                                                         *)
(* Encoding of JavaScript values:                                          *)
(*   item ids      positive integers; NoItem (0) is the blank select value *)
(*   item names    integers ordered as localeCompare orders the names      *)
(*   groups        integers; NoGroup (0) is the empty string               *)
(*   dates         DateNone (0) is undefined or '', DateBad (-1) is a      *)
(*                 non-empty string that does not parse, d >= 1 is the     *)
(*                 time value of a parseable date, in half days            *)
(*   quantities    integers; QtyBad is a value Number() turns into NaN     *)
(*   types         "addition" = 'إذن إضافة', "transfer" = 'إذن تحويل',     *)
(*                 "equipment" = 'إذن خصم معدة', "disbursement" =          *)
(*                 'إذن صرف', "return" = 'إذن ارتجاع', "other" = any other  *)
(***************************************************************************)
EXTENDS Integers, Sequences, FiniteSets, TLC

VARIABLES store, persisted, nextItemId, lastOp

vars == <<store, persisted, nextItemId, lastOp>>

(* ------------------------------ bounds -------------------------------- *)

\* items created beyond the two seeded ones
MaxNewItems == 1
\* permissions held by the store at one time
MaxPerms == 2
\* lines of a permission handed to an operation
MaxLinesIn == 2
\* largest parseable date
MaxDay == 3
\* warehouses held by the store at one time
MaxWarehouses == 2
\* data rows of an imported CSV file
MaxCsvRows == 2
\* permissions held at one time in the runs that vary the dates
MaxDatedPerms == 3
\* rows held by the lines container of the entry form
MaxRowsIn == 26
\* permissions held at one time in the runs on equal dates
MaxTiedPerms == 4

(* --------------------------- program values --------------------------- *)

NoItem == 0
NoGroup == 0
DateNone == 0
DateBad == -1
NaN == -1
QtyBad == -99
MaxLines == 25

KnownTypes == {"addition", "transfer", "equipment", "disbursement", "return"}
NoType == ""

Days == 1..MaxDay

\* Time values are counted in half days: the odd ones are the midnights that
\* a date without a time of day ('2024-01-05') parses to, the even ones the
\* noons between them ('2024-01-05T12:00').
DayLength == 2
Midnights == {d \in Days : d % DayLength = 1}

(* ----------------------------- utilities ------------------------------ *)

Range(s) == {s[k] : k \in DOMAIN s}

\* new Date(x).valueOf(): NaN for undefined, '' and unparseable strings
DateValue(d) == IF d >= 1 THEN d ELSE NaN

\* JsLess ordering NaN below every time value
JsLessTotal(a, b) == a < b

\* a < b on two time values: false when either is NaN
JsLess(a, b) == a # NaN /\ b # NaN /\ a < b

\* Number(line.qty) || 0
NumberOr0(q) == IF q = QtyBad THEN 0 ELSE q

\* p.date || p.createdAt
EffectiveDate(p) == IF p.date # DateNone THEN p.date ELSE p.createdAt

\* uid('perm'): a fresh opaque id, taken as the least id no stored permission has
FreshPermId(perms) ==
  CHOOSE n \in 1..(Len(perms) + 1) :
    /\ \A k \in DOMAIN perms : perms[k].id # n
    /\ \A m \in 1..(n - 1) : \E k \in DOMAIN perms : perms[k].id = m

(* ------------------------------ the store ----------------------------- *)

\* the seed of loadStore: two items, two warehouses, no permissions
SeedStore ==
  [ items |-> << [id |-> 1, name |-> 2, group |-> 1],
                 [id |-> 2, name |-> 3, group |-> 2] >>,
    warehouses |-> << [id |-> 1, name |-> 1], [id |-> 2, name |-> 2] >>,
    permissions |-> << >> ]

\* JSON.stringify(store): the text of the three containers, every object
\* written out field by field, in container order
Stringify(s) ==
  [ items |-> [k \in DOMAIN s.items |->
                 << s.items[k].id, s.items[k].name, s.items[k].group >>],
    warehouses |-> [k \in DOMAIN s.warehouses |->
                 << s.warehouses[k].id, s.warehouses[k].name >>],
    permissions |-> [k \in DOMAIN s.permissions |->
                 << s.permissions[k].id, s.permissions[k].type,
                    s.permissions[k].date, s.permissions[k].posted,
                    s.permissions[k].createdAt,
                    [j \in DOMAIN s.permissions[k].lines |->
                       << s.permissions[k].lines[j].itemId,
                          s.permissions[k].lines[j].qty >>] >>] ]

\* JSON.parse(raw): the objects rebuilt from the text
Parse(raw) ==
  [ items |-> [k \in DOMAIN raw.items |->
                 [id |-> raw.items[k][1], name |-> raw.items[k][2],
                  group |-> raw.items[k][3]]],
    warehouses |-> [k \in DOMAIN raw.warehouses |->
                 [id |-> raw.warehouses[k][1], name |-> raw.warehouses[k][2]]],
    permissions |-> [k \in DOMAIN raw.permissions |->
                 [id |-> raw.permissions[k][1], type |-> raw.permissions[k][2],
                  date |-> raw.permissions[k][3], posted |-> raw.permissions[k][4],
                  createdAt |-> raw.permissions[k][5],
                  lines |-> [j \in DOMAIN raw.permissions[k][6] |->
                    [itemId |-> raw.permissions[k][6][j][1],
                     qty |-> raw.permissions[k][6][j][2]]]]] ]

(* ------------------------- balance aggregator ------------------------- *)

NoFilters ==
  [fromDate |-> DateNone, toDate |-> DateNone, filterPermType |-> NoType,
   filterItemId |-> NoItem, filterGroup |-> NoGroup]

ItemFilter(id) == [NoFilters EXCEPT !.filterItemId = id]

\* SignedQty with the return case subtracting
SignedQtyReturnSubtracts(type, qty) ==
  CASE type = "addition" -> qty
    [] type = "transfer" -> 0 - qty
    [] type = "equipment" -> 0 - qty
    [] type = "disbursement" -> 0 - qty
    [] type = "return" -> 0 - qty
    [] OTHER -> 0

\* the switch on p.type: the signed effect of one line
SignedQty(type, qty) ==
  CASE type = "addition" -> qty
    [] type = "transfer" -> 0 - qty
    [] type = "equipment" -> 0 - qty
    [] type = "disbursement" -> 0 - qty
    [] type = "return" -> qty
    [] OTHER -> 0

\* PassesFilters with <= and >= in place of < and >: the bounds left out
PassesFiltersExclusive(p, f) ==
  /\ ~(f.filterPermType # NoType /\ p.type # f.filterPermType)
  /\ ~(f.fromDate # DateNone /\ DateValue(p.date) # NaN
         /\ DateValue(f.fromDate) # NaN
         /\ DateValue(p.date) <= DateValue(f.fromDate))
  /\ ~(f.toDate # DateNone /\ DateValue(p.date) # NaN
         /\ DateValue(f.toDate) # NaN
         /\ DateValue(p.date) >= DateValue(f.toDate))

\* the second .filter of computeBalances
PassesFilters(p, f) ==
  /\ ~(f.filterPermType # NoType /\ p.type # f.filterPermType)
  /\ ~(f.fromDate # DateNone /\ JsLess(DateValue(p.date), DateValue(f.fromDate)))
  /\ ~(f.toDate # DateNone /\ JsLess(DateValue(f.toDate), DateValue(p.date)))

\* p.lines.forEach(line => ...) on the balances map
RECURSIVE ApplyLines(_, _, _)
ApplyLines(balances, type, lines) ==
  IF lines = << >> THEN balances
  ELSE LET line == Head(lines)
           b1 == IF line.itemId \in DOMAIN balances THEN balances
                 ELSE balances @@ (line.itemId :> 0)
           qty == NumberOr0(line.qty)
           b2 == [b1 EXCEPT ![line.itemId] = @ + SignedQty(type, qty)]
       IN ApplyLines(b2, type, Tail(lines))

\* .forEach(p => ...) over the surviving permissions
RECURSIVE ApplyPerms(_, _)
ApplyPerms(balances, perms) ==
  IF perms = << >> THEN balances
  ELSE ApplyPerms(ApplyLines(balances, Head(perms).type, Head(perms).lines),
                  Tail(perms))

\* balances[k] || 0
ValueOr0(balances, k) == IF k \in DOMAIN balances THEN balances[k] ELSE 0

\* IsPosted letting every permission through
IsPostedAlways(p) == TRUE

\* .filter(p => p.posted)
IsPosted(p) == p.posted

\* the scan: every current item at 0, then the lines of the posted
\* permissions that pass the filters
ScanBalances(s, f) ==
  LET init == [id \in {s.items[k].id : k \in DOMAIN s.items} |-> 0]
      posted == SelectSeq(s.permissions, IsPosted)
      kept == SelectSeq(posted, LAMBDA p : PassesFilters(p, f))
  IN ApplyPerms(init, kept)

\* the output restricted to the items of group g
GroupEntries(s, balances, g) ==
  [id \in {s.items[k].id : k \in {j \in DOMAIN s.items : s.items[j].group = g}}
     |-> ValueOr0(balances, id)]

\* computeBalancesOf testing filterGroup before filterItemId
computeBalancesGroupFirst(s, f) ==
  LET balances == ScanBalances(s, f)
  IN IF f.filterGroup # NoGroup
       THEN GroupEntries(s, balances, f.filterGroup)
     ELSE IF f.filterItemId # NoItem
       THEN (f.filterItemId :> ValueOr0(balances, f.filterItemId))
     ELSE balances

computeBalancesOf(s, f) ==
  LET balances == ScanBalances(s, f)
  IN IF f.filterItemId # NoItem
       THEN (f.filterItemId :> ValueOr0(balances, f.filterItemId))
     ELSE IF f.filterGroup # NoGroup
       THEN GroupEntries(s, balances, f.filterGroup)
     ELSE balances

computeBalances(f) == computeBalancesOf(store, f)

(* ------------------------- ledger reconstructor ----------------------- *)

\* ComesAfter with the operands of the subtraction exchanged
ComesAfterReversed(a, b) ==
  JsLess(DateValue(EffectiveDate(a)), DateValue(EffectiveDate(b)))

\* ComesAfter counting an equal date as coming after
ComesAfterOrTies(a, b) ==
  /\ DateValue(EffectiveDate(a)) # NaN
  /\ DateValue(EffectiveDate(b)) # NaN
  /\ DateValue(EffectiveDate(b)) <= DateValue(EffectiveDate(a))

\* the comparator of .sort: new Date(a.date || a.createdAt) - new Date(b...) > 0
ComesAfter(a, b) ==
  JsLess(DateValue(EffectiveDate(b)), DateValue(EffectiveDate(a)))

\* One step of the stable sort: x goes behind the last element that does not
\* come after it.  A NaN result of the comparator counts as "equal".
RECURSIVE Insert(_, _)
Insert(sorted, x) ==
  IF sorted = << >> THEN << x >>
  ELSE LET n == Len(sorted)
       IN IF ComesAfter(sorted[n], x)
            THEN Append(Insert(SubSeq(sorted, 1, n - 1), x), sorted[n])
          ELSE Append(sorted, x)

RECURSIVE SortByDate(_)
SortByDate(perms) ==
  IF perms = << >> THEN << >>
  ELSE LET n == Len(perms)
       IN Insert(SortByDate(SubSeq(perms, 1, n - 1)), perms[n])

\* The comparator orders the permissions consistently unless an unparseable
\* date (equal to everything) meets two parseable dates that differ.
ConsistentComparator(perms) ==
  LET keys == {DateValue(EffectiveDate(perms[k])) : k \in DOMAIN perms}
  IN NaN \notin keys \/ Cardinality(keys \ {NaN}) <= 1

Reorderings(perms) ==
  {[k \in DOMAIN perms |-> perms[pi[k]]] :
     pi \in {f \in [DOMAIN perms -> DOMAIN perms] :
               \A i, j \in DOMAIN perms : i # j => f[i] # f[j]}}

\* Array.prototype.sort: the stable ascending order when the comparator is
\* consistent; otherwise the order is implementation-defined, and every
\* arrangement of the elements is a possible outcome
SortOutcomes(perms) ==
  IF ConsistentComparator(perms) THEN {SortByDate(perms)}
  ELSE Reorderings(perms)

\* IsInbound taking additions only as inbound
IsInboundAdditionOnly(type) == type = "addition"

IsInbound(type) == type = "addition" \/ type = "return"

\* the rows one permission emits for itemId, in line order
RECURSIVE RowsOf(_, _, _)
RowsOf(p, lines, itemId) ==
  IF lines = << >> THEN << >>
  ELSE LET line == Head(lines)
           qty == NumberOr0(line.qty)
           row == [header |-> p.type,
                   in |-> IF IsInbound(p.type) THEN qty ELSE 0,
                   out |-> IF IsInbound(p.type) THEN 0 ELSE qty,
                   permId |-> p.id,
                   date |-> EffectiveDate(p)]
       IN IF line.itemId # itemId THEN RowsOf(p, Tail(lines), itemId)
          ELSE << row >> \o RowsOf(p, Tail(lines), itemId)

RECURSIVE Transactions(_, _)
Transactions(perms, itemId) ==
  IF perms = << >> THEN << >>
  ELSE RowsOf(Head(perms), Head(perms).lines, itemId)
         \o Transactions(Tail(perms), itemId)

\* the running balance: rows k carries the sum of (in - out) over rows 1..k
RECURSIVE RunningRows(_, _)
RunningRows(txs, bal) ==
  IF txs = << >> THEN << >>
  ELSE LET t == Head(txs)
           b == bal + (t.in - t.out)
       IN << [header |-> t.header, in |-> t.in, out |-> t.out,
              permId |-> t.permId, date |-> t.date, balance |-> b] >>
            \o RunningRows(Tail(txs), b)

HasLineFor(p, itemId) == \E j \in DOMAIN p.lines : p.lines[j].itemId = itemId

\* the rows and the final running balance built from the sorted permissions
CardOf(sorted, itemId) ==
  LET txs == Transactions(sorted, itemId)
      rows == RunningRows(txs, 0)
  IN [rows |-> rows,
      balance |-> IF rows = << >> THEN 0 ELSE rows[Len(rows)].balance]

\* the results getItemCard(itemId) can return on store s: one for each outcome
\* of the sort
getItemCardOf(s, itemId) ==
  LET posted == SelectSeq(s.permissions, IsPosted)
      having == SelectSeq(posted, LAMBDA p : HasLineFor(p, itemId))
  IN {CardOf(sorted, itemId) : sorted \in SortOutcomes(having)}

getItemCard(itemId) == getItemCardOf(store, itemId)

\* getItemCardCall with .sort applied to store.permissions itself, the
\* filters after it
getItemCardCallSortsStore(s, itemId) ==
  {[store |-> [s EXCEPT !.permissions = sortedAll],
    result |-> CardOf(SelectSeq(sortedAll,
                        LAMBDA p : IsPosted(p) /\ HasLineFor(p, itemId)), itemId)] :
     sortedAll \in SortOutcomes(s.permissions)}

\* One call getItemCard(itemId): the store it leaves and the result it
\* returns, for each outcome of the sort.  The two .filter calls return new
\* arrays, so the in-place .sort reorders the filtered array and
\* store.permissions keeps its order; every row is a new object.
getItemCardCall(s, itemId) ==
  {[store |-> s, result |-> card] : card \in getItemCardOf(s, itemId)}

\* One call computeBalances(f): balances and out are new objects, the .filter
\* calls return new arrays, nothing of the store is assigned to
computeBalancesCall(s, f) == [store |-> s, result |-> computeBalancesOf(s, f)]

(* --------------------------- entity operations ------------------------ *)

\* store.items.sort((a,b) => a.name.localeCompare(b.name)): stable, in place
RECURSIVE InsertByName(_, _)
InsertByName(sorted, x) ==
  IF sorted = << >> THEN << x >>
  ELSE LET n == Len(sorted)
       IN IF sorted[n].name > x.name
            THEN Append(InsertByName(SubSeq(sorted, 1, n - 1), x), sorted[n])
          ELSE Append(sorted, x)

RECURSIVE SortByName(_)
SortByName(its) ==
  IF its = << >> THEN << >>
  ELSE LET n == Len(its)
       IN InsertByName(SortByName(SubSeq(its, 1, n - 1)), its[n])

addItemOf(s, id, name, group) ==
  [s EXCEPT !.items = Append(@, [id |-> id, name |-> name, group |-> group])]

\* store.items.find(i => i.id === itemId), then Object.assign(it, data)
editItemOf(s, itemId, name, group) ==
  LET hits == {k \in DOMAIN s.items : s.items[k].id = itemId}
  IN IF hits = {} THEN s
     ELSE LET k == CHOOSE h \in hits : \A g \in hits : h <= g
          IN [s EXCEPT !.items[k] = [id |-> itemId, name |-> name, group |-> group]]

\* removeItemOf also dropping the lines that name the item
removeItemCascading(s, itemId) ==
  [s EXCEPT !.items = SelectSeq(@, LAMBDA i : i.id # itemId),
            !.permissions = [k \in DOMAIN @ |->
               [@[k] EXCEPT !.lines = SelectSeq(@, LAMBDA l : l.itemId # itemId)]]]

removeItemOf(s, itemId) ==
  [s EXCEPT !.items = SelectSeq(@, LAMBDA i : i.id # itemId)]

\* uid('wh'): the least id no stored warehouse has
FreshWarehouseId(whs) ==
  CHOOSE n \in 1..(Len(whs) + 1) :
    /\ \A k \in DOMAIN whs : whs[k].id # n
    /\ \A m \in 1..(n - 1) : \E k \in DOMAIN whs : whs[k].id = m

addWarehouseOf(s, name) ==
  [s EXCEPT !.warehouses =
     Append(@, [id |-> FreshWarehouseId(s.warehouses), name |-> name])]

\* Object.assign({id, posted:false, createdAt:now}, perm), then push
addPermissionOf(s, perm, now) ==
  LET p == [id |-> FreshPermId(s.permissions),
            type |-> perm.type,
            date |-> perm.date,
            posted |-> IF "posted" \in perm.given THEN perm.posted ELSE FALSE,
            createdAt |-> IF "createdAt" \in perm.given THEN perm.createdAt ELSE now,
            lines |-> perm.lines]
  IN [s EXCEPT !.permissions = Append(@, p)]

PermIndex(s, id) ==
  LET hits == {k \in DOMAIN s.permissions : s.permissions[k].id = id}
  IN IF hits = {} THEN 0 ELSE CHOOSE h \in hits : \A g \in hits : h <= g

\* Object.assign(store.permissions[idx], updated)
updatePermissionOf(s, id, updated) ==
  LET idx == PermIndex(s, id)
  IN IF idx = 0 THEN s
     ELSE [s EXCEPT !.permissions[idx] =
             [id |-> @.id,
              type |-> IF "type" \in updated.given THEN updated.type ELSE @.type,
              date |-> IF "date" \in updated.given THEN updated.date ELSE @.date,
              posted |-> IF "posted" \in updated.given THEN updated.posted ELSE @.posted,
              createdAt |-> @.createdAt,
              lines |-> IF "lines" \in updated.given THEN updated.lines ELSE @.lines]]

\* deletePermissionOf dropping the oldest permission instead
deletePermissionOldest(s, id) ==
  [s EXCEPT !.permissions = IF @ = << >> THEN @ ELSE Tail(@)]

deletePermissionOf(s, id) ==
  [s EXCEPT !.permissions = SelectSeq(@, LAMBDA p : p.id # id)]

\* refreshAllViews: saveStore(store), then refreshMasterData sorts store.items
\* in place; the render functions only read
refreshAllViews(s) ==
  /\ persisted' = Stringify(s)
  /\ store' = [s EXCEPT !.items = SortByName(@)]

Op(name, arg, ok) == [op |-> name, arg |-> arg, ok |-> ok]

(* ------------------------------ inputs -------------------------------- *)

\* the clock: new Date() read by a handler
Now == MaxDay

SeqsUpTo(S, n) == UNION {[1..k -> S] : k \in 0..n}

\* the rows of a lines container: the select's value and the number input's
\* value (QtyBad is the empty input)
FormRows(sels, qtys) == SeqsUpTo([sel : sels, qty : qtys], MaxLinesIn)

ItemIdsOf(s) == {s.items[k].id : k \in DOMAIN s.items}
PermIdsOf(s) == {s.permissions[k].id : k \in DOMAIN s.permissions}

(* ------------------------------ handlers ------------------------------ *)

\* #addItemForm submit without dataset.editing: addItem, an opening
\* addition permission when initial > 0, refreshAllViews
ItemFormAdd(names, groups, initials) ==
  \E name \in names, group \in groups, initial \in initials :
    /\ nextItemId <= 2 + MaxNewItems
    /\ initial > 0 => Len(store.permissions) < MaxPerms
    /\ LET s1 == addItemOf(store, nextItemId, name, group)
           s2 == IF initial > 0
                   THEN addPermissionOf(s1,
                          [type |-> "addition", date |-> Now, posted |-> TRUE,
                           lines |-> << [itemId |-> nextItemId, qty |-> initial] >>,
                           given |-> {"posted"}], Now)
                 ELSE s1
       IN refreshAllViews(s2)
    /\ nextItemId' = nextItemId + 1
    /\ lastOp' = Op("addItem", nextItemId, TRUE)

\* #addItemForm submit with dataset.editing set: editItem, refreshAllViews
ItemFormEdit(names, groups) ==
  \E id \in ItemIdsOf(store), name \in names, group \in groups :
    /\ refreshAllViews(editItemOf(store, id, name, group))
    /\ lastOp' = Op("editItem", 0, TRUE)
    /\ UNCHANGED nextItemId

\* .delete-item click: removeItem, refreshAllViews
DeleteItemClick ==
  \E id \in ItemIdsOf(store) :
    /\ refreshAllViews(removeItemOf(store, id))
    /\ lastOp' = Op("removeItem", id, TRUE)
    /\ UNCHANGED nextItemId

\* #addWarehouseForm submit: addWarehouse, refreshAllViews
WarehouseFormAdd(names) ==
  \E name \in names :
    /\ Len(store.warehouses) < MaxWarehouses
    /\ refreshAllViews(addWarehouseOf(store, name))
    /\ lastOp' = Op("addWarehouse", 0, TRUE)
    /\ UNCHANGED nextItemId

\* .delete-wh click: filter the warehouse out, saveStore, refreshAllViews
DeleteWarehouseClick ==
  \E id \in {store.warehouses[k].id : k \in DOMAIN store.warehouses} :
    /\ refreshAllViews([store EXCEPT !.warehouses =
                          SelectSeq(@, LAMBDA w : w.id # id)])
    /\ lastOp' = Op("deleteWarehouse", 0, TRUE)
    /\ UNCHANGED nextItemId

\* the validation loop of postPermissionFromForm
RowValid(r) == r.sel # NoItem /\ r.qty # QtyBad /\ r.qty > 0

\* FormAccepts without the test rows.length > 25
FormAcceptsNoCap(rows) ==
  /\ Len(rows) # 0
  /\ \A k \in DOMAIN rows : RowValid(rows[k])

FormAccepts(rows) ==
  /\ Len(rows) # 0
  /\ ~(Len(rows) > MaxLines)
  /\ \A k \in DOMAIN rows : RowValid(rows[k])

FormLines(rows) ==
  [k \in DOMAIN rows |-> [itemId |-> rows[k].sel, qty |-> rows[k].qty]]

\* postPermissionFromForm(form, false, null): rows are the rows of
\* #linesContainer, each select offering the current items and the blank
postPermissionFromForm(type, date, rows) ==
  /\ \A k \in DOMAIN rows : rows[k].sel \in ItemIdsOf(store) \cup {NoItem}
  /\ IF FormAccepts(rows)
       THEN /\ Len(store.permissions) < MaxPerms
            /\ refreshAllViews(addPermissionOf(store,
                 [type |-> type, date |-> date, posted |-> TRUE,
                  lines |-> FormLines(rows), given |-> {"posted"}], Now))
            /\ lastOp' = Op("postPermission", 0, TRUE)
     ELSE /\ UNCHANGED <<store, persisted>>
          /\ lastOp' = Op("postPermission", 0, FALSE)
  /\ UNCHANGED nextItemId

\* #permForm submit, the container holding one of the given row sequences
PermFormSubmitRows(types, dates, rowSeqs) ==
  \E type \in types, date \in dates, rows \in rowSeqs :
    postPermissionFromForm(type, date, rows)

\* #permForm submit
PermFormSubmit(types, dates, sels, qtys) ==
  PermFormSubmitRows(types, dates, FormRows(sels, qtys))

\* the lines the #editPermForm handler keeps: .map(...).filter(l => l.itemId && l.qty > 0)
EditLines(rows) ==
  SelectSeq([k \in DOMAIN rows |->
               [itemId |-> rows[k].sel, qty |-> NumberOr0(rows[k].qty)]],
            LAMBDA l : l.itemId # NoItem /\ l.qty > 0)

\* the #editPermForm submit handler on the rows of #editLinesContainer;
\* id is dataset.editId, the permission the panel was opened on
EditPermSave(id, type, date, rows) ==
  /\ \A k \in DOMAIN rows : rows[k].sel \in ItemIdsOf(store) \cup {NoItem}
  /\ LET idx == PermIndex(store, id)
         lines == EditLines(rows)
     IN IF idx = 0 \/ Len(lines) = 0
          THEN /\ UNCHANGED <<store, persisted>>
               /\ lastOp' = Op("editPermission", 0, FALSE)
        ELSE /\ refreshAllViews([store EXCEPT !.permissions[idx] =
                   [id |-> @.id, type |-> type, date |-> date,
                    posted |-> @.posted, createdAt |-> @.createdAt,
                    lines |-> lines]])
             /\ lastOp' = Op("editPermission", 0, TRUE)
  /\ UNCHANGED nextItemId

\* #editPermForm submit
EditPermSubmit(types, dates, sels, qtys) ==
  \E id \in 1..MaxPerms, type \in types, date \in dates,
     rows \in FormRows(sels, qtys) :
    EditPermSave(id, type, date, rows)

\* .delete-perm click and #deletePermBtn click: deletePermission, refreshAllViews
DeletePermClick ==
  \E id \in PermIdsOf(store) :
    /\ refreshAllViews(deletePermissionOf(store, id))
    /\ lastOp' = Op("deletePermission", 0, TRUE)
    /\ UNCHANGED nextItemId

\* a direct call addPermission(perm): push and saveStore, no refresh
AddPermissionCall(perms, cap) ==
  \E perm \in perms :
    /\ Len(store.permissions) < cap
    /\ LET s1 == addPermissionOf(store, perm, Now)
       IN /\ store' = s1
          /\ persisted' = Stringify(s1)
    /\ lastOp' = Op("addPermission", 0, TRUE)
    /\ UNCHANGED nextItemId

\* a direct call updatePermission(id, updated): saveStore only when found
UpdatePermissionCall(updates) ==
  \E id \in 1..MaxPerms, updated \in updates :
    /\ IF PermIndex(store, id) = 0
         THEN /\ UNCHANGED <<store, persisted>>
              /\ lastOp' = Op("updatePermission", 0, FALSE)
       ELSE LET s1 == updatePermissionOf(store, id, updated)
            IN /\ store' = s1
               /\ persisted' = Stringify(s1)
               /\ lastOp' = Op("updatePermission", 0, TRUE)
    /\ UNCHANGED nextItemId

\* a direct call deletePermission(id): filter and saveStore, no refresh
DeletePermissionCall ==
  \E id \in PermIdsOf(store) :
    /\ LET s1 == deletePermissionOf(store, id)
       IN /\ store' = s1
          /\ persisted' = Stringify(s1)
    /\ lastOp' = Op("deletePermission", 0, TRUE)
    /\ UNCHANGED nextItemId

\* a call getItemCard(id), as #showCardBtn makes it
GetItemCardCall(ids) ==
  \E id \in ids : \E out \in getItemCardCall(store, id) :
    /\ store' = out.store
    /\ lastOp' = Op("getItemCard", 0, TRUE)
    /\ UNCHANGED <<persisted, nextItemId>>

\* a call computeBalances(f), as renderStockTable makes it
ComputeBalancesCall(filters) ==
  \E f \in filters :
    /\ store' = computeBalancesCall(store, f).store
    /\ lastOp' = Op("computeBalances", 0, TRUE)
    /\ UNCHANGED <<persisted, nextItemId>>

(* --------------------------- import / restore ------------------------- *)

\* the body of the row loop of importItemsCSV: st is <<store, next item id>>
ImportRow(st, row) ==
  LET s == st[1]
      id == st[2]
  IN IF row.name = 0 THEN st
     ELSE IF \E k \in DOMAIN s.items : s.items[k].name = row.name THEN st
     ELSE LET s1 == addItemOf(s, id, row.name, row.group)
              s2 == IF row.initial # QtyBad /\ row.initial > 0
                      THEN addPermissionOf(s1,
                             [type |-> "addition", date |-> Now, posted |-> TRUE,
                              lines |-> << [itemId |-> id, qty |-> row.initial] >>,
                              given |-> {"posted"}], Now)
                    ELSE s1
          IN << s2, id + 1 >>

RECURSIVE ImportRows(_, _)
ImportRows(st, rows) ==
  IF rows = << >> THEN st
  ELSE ImportRows(ImportRow(st, Head(rows)), Tail(rows))

\* reader.onload of importItemsCSV on a file with the given data rows; a
\* file without the name and unit columns, or an empty one, is refused
\* before any row is read
importItemsCSV(headerOk, rows) ==
  IF ~headerOk
    THEN /\ rows = << >>
         /\ UNCHANGED <<store, persisted, nextItemId>>
         /\ lastOp' = Op("importItems", 0, FALSE)
  ELSE LET st == ImportRows(<< store, nextItemId >>, rows)
       IN /\ st[2] <= 3 + MaxNewItems
          /\ Len(st[1].permissions) <= MaxPerms
          /\ refreshAllViews(st[1])
          /\ nextItemId' = st[2]
          /\ lastOp' = Op("importItems", 0, TRUE)

\* #importFile change: importItemsCSV(file)
ImportItemsCSV(names, groups, initials) ==
  \E headerOk \in BOOLEAN,
     rows \in SeqsUpTo([name : names \cup {0}, group : groups, initial : initials],
                       MaxCsvRows) :
    importItemsCSV(headerOk, rows)

\* BackupValid without the test of data.permissions
BackupValidTwoContainers(file) ==
  /\ file.parses
  /\ {"items", "warehouses"} \subseteq file.has

\* the "basic validation" of importBackupFile: JSON.parse succeeded and the
\* three containers are there
BackupValid(file) ==
  /\ file.parses
  /\ {"items", "warehouses", "permissions"} \subseteq file.has

\* reader.onload of importBackupFile
ImportBackupFile(files) ==
  \E file \in files :
    /\ IF BackupValid(file)
         THEN /\ refreshAllViews(file.data)
              /\ lastOp' = Op("restore", file.tag, TRUE)
       ELSE /\ UNCHANGED <<store, persisted>>
            /\ lastOp' = Op("restore", file.tag, FALSE)
    /\ UNCHANGED nextItemId

\* page load: store = loadStore(), then the initial refreshAllViews()
Reload ==
  /\ refreshAllViews(Parse(persisted))
  /\ lastOp' = Op("load", 0, TRUE)
  /\ UNCHANGED nextItemId

(* ------------------------- input sets of the runs --------------------- *)

Line(i, q) == [itemId |-> i, qty |-> q]

Perm(id, type, date, posted, createdAt, lines) ==
  [id |-> id, type |-> type, date |-> date, posted |-> posted,
   createdAt |-> createdAt, lines |-> lines]

\* backup files: an export of the seeded store, hand-edited snapshots, a file
\* that is no JSON, and files lacking one container
SnapshotUnsorted ==
  [ items |-> << [id |-> 2, name |-> 3, group |-> 2],
                 [id |-> 1, name |-> 2, group |-> 1] >>,
    warehouses |-> << [id |-> 1, name |-> 1] >>,
    permissions |-> << Perm(1, "addition", 1, TRUE, 1, << Line(1, 2) >>) >> ]

SnapshotNoLines ==
  [ items |-> << [id |-> 1, name |-> 2, group |-> 1] >>,
    warehouses |-> << >>,
    permissions |-> << Perm(1, "other", DateBad, TRUE, 1, << >>) >> ]

\* a snapshot whose one permission has a line of quantity 0 and a line
\* whose quantity is no number
SnapshotBadQty ==
  [ items |-> << [id |-> 1, name |-> 2, group |-> 1] >>,
    warehouses |-> << [id |-> 1, name |-> 1] >>,
    permissions |-> << Perm(1, "addition", 1, TRUE, 1,
                            << Line(1, 0), Line(1, QtyBad) >>) >> ]

AllContainers == {"items", "warehouses", "permissions"}

BackupFiles ==
  { [tag |-> 1, parses |-> TRUE, has |-> AllContainers, data |-> SeedStore],
    [tag |-> 2, parses |-> TRUE, has |-> AllContainers, data |-> SnapshotUnsorted],
    [tag |-> 3, parses |-> TRUE, has |-> AllContainers, data |-> SnapshotNoLines],
    [tag |-> 4, parses |-> FALSE, has |-> {}, data |-> SeedStore],
    [tag |-> 6, parses |-> TRUE, has |-> AllContainers, data |-> SnapshotBadQty] }
  \cup { [tag |-> 5, parses |-> TRUE, has |-> AllContainers \ {c},
          data |-> SnapshotUnsorted] : c \in AllContainers }

\* what a caller may hand to addPermission
PermInputs(types, dates, posteds, createds, lineSeqs) ==
  { [type |-> t, date |-> d, posted |-> po, createdAt |-> c,
     lines |-> ls, given |-> {"posted", "createdAt"}] :
      t \in types, d \in dates, po \in posteds, c \in createds,
      ls \in lineSeqs }

\* a call that leaves posted and createdAt out, so that the defaults apply
DefaultedInputs(types, dates, lineSeqs) ==
  { [type |-> t, date |-> d, posted |-> TRUE, createdAt |-> 0,
     lines |-> ls, given |-> {}] :
      t \in types, d \in dates, ls \in lineSeqs }

\* what a caller may hand to updatePermission: new type and lines, or no lines
UpdateInputs ==
  { [type |-> "return", date |-> 1, posted |-> TRUE,
     lines |-> << Line(2, 1) >>, given |-> {"type", "lines"}],
    [type |-> "return", date |-> 1, posted |-> TRUE, lines |-> << >>,
     given |-> {"lines"}] }

\* a lines container of n rows: items first and 2 in turn, row k asking for
\* the quantity k
LongRows(n, first) ==
  [k \in 1..n |-> [sel |-> IF k % 2 = 1 THEN first ELSE 2, qty |-> k]]

\* the containers of the runs on the line cap: one row, one row short of the
\* cap, the cap, beyond the cap, and the cap with a last row of quantity 0
FormContainers ==
  {LongRows(n, first) :
     n \in {1, MaxLines - 1, MaxLines} \cup ((MaxLines + 1)..MaxRowsIn),
     first \in 1..2}
  \cup {[LongRows(MaxLines, 1) EXCEPT ![MaxLines].qty = 0]}

\* edits of a permission: its type, its date, its lines, or all three
EditInputs ==
  { [type |-> "return", date |-> MaxDay, posted |-> TRUE,
     lines |-> << Line(2, 2) >>, given |-> g] :
      g \in {{"type"}, {"date"}, {"lines"}, {"type", "date", "lines"}} }

\* the permissions of the runs on recomputation
RecomputeInputs ==
  PermInputs({"addition", "disbursement"}, {1, MaxDay}, BOOLEAN, {Now},
             {<< Line(1, 1) >>, << Line(1, 2), Line(2, 1) >>})

(* --------------------------- specifications --------------------------- *)

Init ==
  /\ store = SeedStore
  /\ persisted = Stringify(SeedStore)
  /\ nextItemId = 3
  /\ lastOp = Op("load", 0, TRUE)

\* the permission handlers, over the seeded items and warehouses
Next ==
  \/ PermFormSubmit({"addition", "disbursement"}, {1}, 0..2, {0, 1})
  \/ EditPermSubmit({"transfer"}, {1}, 0..2, {QtyBad, 2})
  \/ DeletePermClick
  \/ DeleteItemClick
  \/ ImportBackupFile(BackupFiles)
  \/ AddPermissionCall(
       PermInputs({"other"}, {1}, {TRUE}, {Now}, {<< >>, << Line(1, 1) >>})
         \cup DefaultedInputs({"addition"}, {1}, {<< Line(1, 1) >>}), MaxPerms)
  \/ UpdatePermissionCall(UpdateInputs)

Spec == Init /\ [][Next]_vars

\* the master-data handlers: items, warehouses, CSV import, page load
NextMaster ==
  \/ ItemFormAdd({1, 3}, {1}, {0, 1})
  \/ ItemFormEdit({1, 3}, {2})
  \/ DeleteItemClick
  \/ WarehouseFormAdd({3})
  \/ DeleteWarehouseClick
  \/ ImportItemsCSV({1, 2}, {NoGroup}, {0 - 1, 2})
  \/ ImportBackupFile(BackupFiles)
  \/ Reload

SpecMaster == Init /\ [][NextMaster]_vars

\* the ledger by type: permissions of every type, posted or not
LedgerLines ==
  { << >>, << Line(1, 1) >>, << Line(1, 2) >>, << Line(1, 2), Line(2, 1) >>,
    << Line(2, QtyBad), Line(2, 2) >> }

NextLedger ==
  \/ AddPermissionCall(
       PermInputs(KnownTypes \cup {"other"}, {1, MaxDay}, BOOLEAN, {Now},
                  LedgerLines),
       MaxPerms)
  \/ DeleteItemClick

SpecLedger == Init /\ [][NextLedger]_vars

\* the ledger by date: permissions with every kind of date
NextDates ==
  \/ AddPermissionCall(
       PermInputs({"addition", "disbursement"}, {DateBad} \cup Days, {TRUE},
                  {Now}, {<< Line(1, 1) >>, << Line(1, 2), Line(1, 1) >>})
         \cup PermInputs({"addition"}, {DateNone}, {TRUE}, Days,
                         {<< Line(1, 1) >>}),
       MaxDatedPerms)
  \/ DeletePermClick

SpecDates == Init /\ [][NextDates]_vars

\* the filters: few permissions, every combination of filters
NextFilters ==
  \/ AddPermissionCall(
       PermInputs({"addition", "disbursement"}, {1, MaxDay}, BOOLEAN, {Now},
                  {<< Line(1, 1) >>, << Line(2, 2) >>, << Line(1, 2), Line(2, 1) >>})
         \cup DefaultedInputs({"return"}, {1}, {<< Line(1, 1) >>}),
       MaxPerms)
  \/ DeleteItemClick
  \/ DeletePermClick

SpecFilters == Init /\ [][NextFilters]_vars

\* the entry form at the line cap
NextForm ==
  \/ PermFormSubmitRows({"addition", "disbursement"}, {1, 2}, FormContainers)
  \/ DeletePermClick

SpecForm == Init /\ [][NextForm]_vars

\* recomputation: permissions added, edited and deleted by direct calls
NextRecompute ==
  \/ AddPermissionCall(RecomputeInputs, MaxPerms)
  \/ UpdatePermissionCall(EditInputs)
  \/ DeletePermissionCall

SpecRecompute == Init /\ [][NextRecompute]_vars

\* the two reads between additions of permissions and removals of items
NextReads ==
  \/ AddPermissionCall(RecomputeInputs, MaxPerms)
  \/ DeleteItemClick
  \/ GetItemCardCall(1..2)
  \/ ComputeBalancesCall({NoFilters, ItemFilter(1),
                          [NoFilters EXCEPT !.fromDate = 2, !.filterGroup = 1]})

SpecReads == Init /\ [][NextReads]_vars

\* equal dates: permissions for item 1 on two days, with an unparseable
\* date, and with no date and a createdAt on the first day
NextTies ==
  \/ AddPermissionCall(
       PermInputs({"addition"}, {DateBad, 1, 2}, {TRUE}, {Now},
                  {<< Line(1, 1) >>, << Line(1, 2), Line(2, 1), Line(1, 1) >>})
         \cup PermInputs({"disbursement"}, {DateNone}, {TRUE}, {1},
                         {<< Line(1, 1) >>}),
       MaxTiedPerms)
  \/ DeletePermClick

SpecTies == Init /\ [][NextTies]_vars

(* ------------------------------- claims ------------------------------- *)

\* the sum of f over the set S
RECURSIVE SumOver(_, _)
SumOver(S, f) ==
  IF S = {} THEN 0
  ELSE LET x == CHOOSE y \in S : TRUE IN f[x] + SumOver(S \ {x}, f)

\* every (permission, line) place of the store
LinePlaces(s) ==
  {<< k, j >> \in (DOMAIN s.permissions) \X (1..MaxLines) :
     j \in DOMAIN s.permissions[k].lines}

LineAt(s, pl) == s.permissions[pl[1]].lines[pl[2]]

\* the sign rule as the specification states it
RuleSign(type) ==
  IF type \in {"addition", "return"} THEN 1
  ELSE IF type \in {"transfer", "equipment", "disbursement"} THEN 0 - 1
  ELSE 0

\* a quantity as a number, a non-numeric one counting 0
QtyValue(q) == IF q = QtyBad THEN 0 ELSE q

\* the sum the sign rule gives item id over the posted permissions that Counts admits
RuleBalance(s, id, Counts(_)) ==
  LET places == {pl \in LinePlaces(s) :
                   /\ s.permissions[pl[1]].posted
                   /\ Counts(s.permissions[pl[1]])
                   /\ LineAt(s, pl).itemId = id}
  IN SumOver(places,
             [pl \in places |-> RuleSign(s.permissions[pl[1]].type)
                                  * QtyValue(LineAt(s, pl).qty)])

PostedLineIds(s) ==
  {LineAt(s, pl).itemId : pl \in {q \in LinePlaces(s) : s.permissions[q[1]].posted}}

AnyPerm(p) == TRUE

\* C1: computeBalances() with no filters maps every current item, and every id
\* a posted line names, to the sum of the posted line quantities for that id,
\* each signed by its permission's type (+ addition and return, - transfer,
\* equipment deduction and disbursement, nothing for any other type); an item
\* no posted line names has balance 0.
C1_SignRuleSum ==
  LET b == computeBalances(NoFilters)
  IN /\ DOMAIN b = ItemIdsOf(store) \cup PostedLineIds(store)
     /\ \A id \in DOMAIN b : b[id] = RuleBalance(store, id, AnyPerm)
     /\ \A id \in ItemIdsOf(store) \ PostedLineIds(store) : b[id] = 0

\* an addition of 2 and a disbursement of 1 for item 1, item 2 untouched
C1_Witness ==
  /\ \E k, m \in DOMAIN store.permissions :
       /\ store.permissions[k].posted /\ store.permissions[m].posted
       /\ store.permissions[k].type = "addition"
       /\ store.permissions[k].lines = << Line(1, 2) >>
       /\ store.permissions[m].type = "disbursement"
       /\ store.permissions[m].lines = << Line(1, 1) >>
  /\ ItemIdsOf(store) = {1, 2}
  /\ computeBalances(NoFilters) = (1 :> 1) @@ (2 :> 0)

\* C2: for every item id the balance of getItemCard(id) equals
\* computeBalances({filterItemId: id})[id].
C2_CardMatchesBalance ==
  \A id \in 1..(2 + MaxNewItems) :
    \A card \in getItemCard(id) :
      card.balance = computeBalances(ItemFilter(id))[id]

\* C3: every stored permission has between 1 and 25 lines.
C3_LineCountInRange ==
  \A k \in DOMAIN store.permissions :
    /\ Len(store.permissions[k].lines) >= 1
    /\ Len(store.permissions[k].lines) <= MaxLines

\* C4: the persisted blob deserializes to the in-memory store: the same items,
\* warehouses and permissions, in the same order.
C4_PersistedMatchesStore == Parse(persisted) = store

HasPostedLine(s, id) == id \in PostedLineIds(s)

\* C5: removing an item that has a line in a posted permission leaves
\* store.permissions as it was, and computeBalances() still has the item's
\* key, with the balance it had before the removal.
C5_RemoveKeepsHistory ==
  [][\A x \in 1..(2 + MaxNewItems) :
       (lastOp' = Op("removeItem", x, TRUE) /\ HasPostedLine(store, x)) =>
         /\ store'.permissions = store.permissions
         /\ x \in DOMAIN computeBalancesOf(store', NoFilters)
         /\ computeBalancesOf(store', NoFilters)[x]
              = computeBalancesOf(store, NoFilters)[x]]_vars

\* the item just removed is gone from the items and keeps a nonzero balance
C5_Witness ==
  /\ lastOp.op = "removeItem"
  /\ lastOp.arg \notin ItemIdsOf(store)
  /\ HasPostedLine(store, lastOp.arg)
  /\ computeBalances(NoFilters)[lastOp.arg] # 0

\* the filters of the claims: every bound, type, item and group
FilterDates == {DateNone} \cup Days

AllFilters ==
  [fromDate : FilterDates, toDate : FilterDates,
   filterPermType : {NoType, "addition", "disbursement", "other"},
   filterItemId : 0..(2 + MaxNewItems), filterGroup : 0..2]

LastPerm(s) == s.permissions[Len(s.permissions)]

\* C6: adding a permission whose posted flag is false changes no value
\* computeBalances returns, for any combination of filters, and adds no row
\* to getItemCard for any item.
C6_UnpostedAddsNothing ==
  [][(lastOp' = Op("addPermission", 0, TRUE)
        /\ Len(store'.permissions) = Len(store.permissions) + 1
        /\ ~LastPerm(store').posted) =>
       /\ \A f \in AllFilters :
            computeBalancesOf(store', f) = computeBalancesOf(store, f)
       /\ \A id \in 1..(2 + MaxNewItems) :
            getItemCardOf(store', id) = getItemCardOf(store, id)]_vars

\* an unposted addition for item 1 was just added next to a posted permission
C6_Witness ==
  /\ lastOp.op = "addPermission"
  /\ Len(store.permissions) = 2
  /\ store.permissions[1].posted
  /\ ~LastPerm(store).posted
  /\ LastPerm(store).type = "addition"
  /\ LastPerm(store).lines = << Line(1, 1) >>
  /\ computeBalances(NoFilters)[1] = RuleBalance(store, 1, AnyPerm)

AllDatesParse(s) ==
  \A k \in DOMAIN s.permissions :
    s.permissions[k].posted => s.permissions[k].date \in Days

\* C7: with parseable dates, computeBalances({fromDate, toDate}) counts a
\* posted permission exactly when fromDate <= date <= toDate, both bounds
\* included.
C7_DateRangeInclusive ==
  AllDatesParse(store) =>
    \A from \in Days, to \in Days :
      LET b == computeBalances([NoFilters EXCEPT !.fromDate = from, !.toDate = to])
          InRange(p) == from <= p.date /\ p.date <= to
      IN \A id \in DOMAIN b : b[id] = RuleBalance(store, id, InRange)

\* additions dated 1, 2 and 3: the range [2, 2] counts only the one dated 2,
\* the range [1, 2] the two dated on its bounds
C7_Witness ==
  /\ Len(store.permissions) = 3
  /\ \A k \in 1..3 : /\ store.permissions[k].date = k
                     /\ store.permissions[k].type = "addition"
                     /\ store.permissions[k].lines = << Line(1, 1) >>
  /\ computeBalances([NoFilters EXCEPT !.fromDate = 2, !.toDate = 2])[1] = 1
  /\ computeBalances([NoFilters EXCEPT !.fromDate = 1, !.toDate = 2])[1] = 2

\* the type and date filters as the specification states them
RuleCounts(p, f) ==
  /\ f.filterPermType # NoType => p.type = f.filterPermType
  /\ f.fromDate # DateNone => f.fromDate <= p.date
  /\ f.toDate # DateNone => p.date <= f.toDate

\* C8: with filterItemId given, computeBalances returns exactly one key,
\* filterItemId, holding that item's balance under the type and date
\* filters, whatever filterGroup is and whether or not the item exists.
C8_ItemFilterSingleEntry ==
  \A f \in AllFilters :
    f.filterItemId # NoItem =>
      LET b == computeBalances(f)
          Counts(p) == RuleCounts(p, f)
      IN /\ DOMAIN b = {f.filterItemId}
         /\ b[f.filterItemId] = RuleBalance(store, f.filterItemId, Counts)

\* item 1 is gone, the filter names it together with a group it never had
C8_Witness ==
  /\ 1 \notin ItemIdsOf(store)
  /\ 2 \in ItemIdsOf(store)
  /\ computeBalances([NoFilters EXCEPT !.filterItemId = 1, !.filterGroup = 2])
       = (1 :> 2)

EffectiveDatesParse(s, id) ==
  \A k \in DOMAIN s.permissions :
    (s.permissions[k].posted /\ HasLineFor(s.permissions[k], id)) =>
      EffectiveDate(s.permissions[k]) \in Days

SameElements(a, b) ==
  /\ Len(a) = Len(b)
  /\ \A x \in Range(a) \cup Range(b) :
       Cardinality({k \in DOMAIN a : a[k] = x})
         = Cardinality({k \in DOMAIN b : b[k] = x})

\* C10: a restore from a file that does not parse, or lacks one of items,
\* warehouses, permissions, leaves the store and the persisted blob as they
\* were; a restore that passes replaces the store by the backup's content
\* and persists it.
C10_RestoreAllOrNothing ==
  [][\A file \in BackupFiles :
       ImportBackupFile({file}) =>
         IF ~file.parses \/ \E c \in AllContainers : c \notin file.has
           THEN store' = store /\ persisted' = persisted
         ELSE /\ Parse(persisted') = file.data
              /\ store'.warehouses = file.data.warehouses
              /\ store'.permissions = file.data.permissions
              /\ SameElements(store'.items, file.data.items)]_vars

\* a restore has just failed on a store that holds a permission
C10_Witness ==
  /\ lastOp.op = "restore"
  /\ ~lastOp.ok
  /\ Len(store.permissions) >= 1
  /\ store.items # SeedStore.items

\* a row the validation is to refuse: no item selected, or a quantity that
\* is missing, zero or negative
RowOffends(r) == r.sel = NoItem \/ r.qty = QtyBad \/ r.qty <= 0

\* C11: saving a permission, from the entry form or from the edit panel,
\* with a line that has no item or a zero, negative or missing quantity is
\* aborted as a whole: store and persisted blob stay as they were, and no
\* permission is stored without the offending lines.
C11_InvalidLineAborts ==
  [][\A type \in {"addition", "disbursement", "transfer"},
        rows \in FormRows(0..2, {QtyBad, 0, 1, 2}) :
       (\E k \in DOMAIN rows : RowOffends(rows[k])) =>
         /\ postPermissionFromForm(type, 1, rows) =>
               store' = store /\ persisted' = persisted
         /\ \A id \in 1..MaxPerms :
              EditPermSave(id, type, 1, rows) =>
                store' = store /\ persisted' = persisted]_vars

\* C12: posting a permission with 26 lines is rejected, no permission is
\* appended and no lines are cut off; posting one with exactly 25 valid lines
\* succeeds and stores all 25 lines in order.
C12_LineCap ==
  [][\A type \in {"addition", "disbursement"}, date \in {1, 2},
        rows \in FormContainers :
       postPermissionFromForm(type, date, rows) =>
         /\ Len(rows) > MaxLines =>
               store' = store /\ persisted' = persisted
         /\ (Len(rows) = MaxLines /\ \A k \in DOMAIN rows : ~RowOffends(rows[k])) =>
               /\ Len(store'.permissions) = Len(store.permissions) + 1
               /\ LastPerm(store').posted
               /\ LastPerm(store').lines
                    = [k \in 1..MaxLines |-> Line(rows[k].sel, rows[k].qty)]
               /\ Parse(persisted').permissions = store'.permissions]_vars

\* a submission has just been refused while the store holds a permission of
\* 25 lines posted earlier, its last line asking for 25
C12_Witness ==
  /\ lastOp = Op("postPermission", 0, FALSE)
  /\ \E k \in DOMAIN store.permissions :
       /\ Len(store.permissions[k].lines) = MaxLines
       /\ store.permissions[k].lines[MaxLines].qty = MaxLines
       /\ store.permissions[k].posted

\* C13: importing a row whose name matches no existing item and whose
\* initial_qty is a nonzero number creates the item and exactly one posted
\* addition permission with a single line crediting that quantity to the new
\* item; a row whose name matches an existing item creates neither an item
\* nor a permission.
C13_ImportRowCreates ==
  [][\A name \in {1, 2}, initial \in {0 - 1, 2} :
       importItemsCSV(TRUE, << [name |-> name, group |-> NoGroup,
                               initial |-> initial] >>) =>
         IF \E k \in DOMAIN store.items : store.items[k].name = name
           THEN /\ SameElements(store'.items, store.items)
                /\ store'.permissions = store.permissions
         ELSE /\ Len(store'.items) = Len(store.items) + 1
              /\ \E k \in DOMAIN store'.items :
                   store'.items[k] = [id |-> nextItemId, name |-> name,
                                      group |-> NoGroup]
              /\ Len(store'.permissions) = Len(store.permissions) + 1
              /\ SubSeq(store'.permissions, 1, Len(store.permissions))
                   = store.permissions
              /\ LastPerm(store').posted
              /\ LastPerm(store').type = "addition"
              /\ LastPerm(store').lines = << Line(nextItemId, initial) >>]_vars

\* the filter combinations of the claim on recomputation
RecomputeFilters ==
  [fromDate : {DateNone, 2}, toDate : {DateNone, 2},
   filterPermType : {NoType, "addition"},
   filterItemId : {NoItem, 1}, filterGroup : {NoGroup, 1}]

\* the store that held, from the start, the permission id as the edit leaves it
EditedFromStart(s, id, updated) ==
  LET idx == PermIndex(s, id)
      old == s.permissions[idx]
      new == Perm(old.id,
                  IF "type" \in updated.given THEN updated.type ELSE old.type,
                  IF "date" \in updated.given THEN updated.date ELSE old.date,
                  old.posted, old.createdAt,
                  IF "lines" \in updated.given THEN updated.lines ELSE old.lines)
  IN [s EXCEPT !.permissions =
        SubSeq(@, 1, idx - 1) \o << new >> \o SubSeq(@, idx + 1, Len(@))]

\* C14: balances are recomputed from the current posted permissions: after
\* addPermission(p) followed by deletePermission(p.id) computeBalances
\* returns, for every filter combination, what it returned before p was
\* added; after an edit of a permission's type, date or lines it returns the
\* balances of a store that held the edited permission from the start.
C14_RecomputedBalances ==
  \A f \in RecomputeFilters :
    /\ \A p \in RecomputeInputs :
         LET added == addPermissionOf(store, p, Now)
             removed == deletePermissionOf(added, LastPerm(added).id)
         IN /\ computeBalancesOf(removed, f) = computeBalances(f)
            /\ \A id \in DOMAIN computeBalancesOf(added, f) :
                 computeBalancesOf(added, f)[id]
                   = RuleBalance(added, id, LAMBDA q : RuleCounts(q, f))
    /\ \A id \in PermIdsOf(store), updated \in EditInputs :
         LET edited == updatePermissionOf(store, id, updated)
         IN /\ computeBalancesOf(edited, f)
                 = computeBalancesOf(EditedFromStart(store, id, updated), f)
            /\ \A x \in DOMAIN computeBalancesOf(edited, f) :
                 computeBalancesOf(edited, f)[x]
                   = RuleBalance(EditedFromStart(store, id, updated), x,
                                 LAMBDA q : RuleCounts(q, f))

\* a permission was added and deleted again next to a posted one that an
\* edit has turned into a return crediting item 2
C14_Witness ==
  /\ lastOp = Op("deletePermission", 0, TRUE)
  /\ Len(store.permissions) = 1
  /\ store.permissions[1].posted
  /\ store.permissions[1].type = "return"
  /\ store.permissions[1].lines = << Line(2, 2) >>
  /\ computeBalances(NoFilters) = (1 :> 0) @@ (2 :> 2)

\* C15: in every reachable state every line of every stored permission has
\* a qty that is a number strictly greater than 0.
C15_QtyPositive ==
  \A pl \in LinePlaces(store) :
    LineAt(store, pl).qty # QtyBad /\ LineAt(store, pl).qty > 0

RowPlaces(card, permId) == {k \in DOMAIN card.rows : card.rows[k].permId = permId}

\* permissions a and b are posted, both have a line for the item, and have
\* the same parseable effective date
TiedFor(a, b, id) ==
  /\ a.posted /\ b.posted
  /\ HasLineFor(a, id) /\ HasLineFor(b, id)
  /\ EffectiveDate(a) \in Days
  /\ EffectiveDate(a) = EffectiveDate(b)

\* the rows of the card keep container order between permissions of equal
\* date, and line order within each permission
TiesKeepOrder(s, id, card) ==
  /\ \A i, j \in DOMAIN s.permissions :
       (i < j /\ TiedFor(s.permissions[i], s.permissions[j], id)) =>
         \A k \in RowPlaces(card, s.permissions[i].id),
            m \in RowPlaces(card, s.permissions[j].id) : k < m
  /\ \A i \in DOMAIN s.permissions :
       LET p == s.permissions[i]
           mine == SelectSeq(card.rows, LAMBDA r : r.permId = p.id)
           lines == SelectSeq(p.lines, LAMBDA l : l.itemId = id)
       IN (p.posted /\ HasLineFor(p, id)) =>
            [k \in DOMAIN mine |-> mine[k].in + mine[k].out]
              = [k \in DOMAIN lines |-> QtyValue(lines[k].qty)]

RowsWellFormed(s, id, card) ==
  LET rows == card.rows
  IN /\ Len(rows) = Cardinality({pl \in LinePlaces(s) :
                       /\ s.permissions[pl[1]].posted
                       /\ LineAt(s, pl).itemId = id})
     /\ \A p \in Range(s.permissions) :
          LET mine == SelectSeq(rows, LAMBDA r : r.permId = p.id)
              lines == SelectSeq(p.lines, LAMBDA l : l.itemId = id)
          IN p.posted =>
               /\ Len(mine) = Len(lines)
               /\ \A k \in DOMAIN mine :
                    IF p.type \in {"addition", "return"}
                      THEN mine[k].in = QtyValue(lines[k].qty) /\ mine[k].out = 0
                    ELSE mine[k].out = QtyValue(lines[k].qty) /\ mine[k].in = 0
     /\ \A k \in DOMAIN rows :
          rows[k].balance
            = SumOver(1..k, [j \in 1..k |-> rows[j].in - rows[j].out])
     /\ card.balance = IF rows = << >> THEN 0 ELSE rows[Len(rows)].balance
     /\ (~\E p \in Range(s.permissions) : p.posted /\ HasLineFor(p, id)) =>
          rows = << >> /\ card.balance = 0

\* C18: in the result of getItemCard(id) every row has the line quantity on
\* one of in/out and 0 on the other (in for addition and return, out for
\* every other type), the balance of row k is the sum of in - out over rows
\* 1..k, the returned balance is the last row's balance, and it is 0 with no
\* rows when no posted permission has a line for id.
C18_CardRows ==
  \A id \in 1..(2 + MaxNewItems) :
    \A card \in getItemCard(id) : RowsWellFormed(store, id, card)

\* a return of 2 on day 1 and a transfer of 1 on the last day, both for
\* item 1: rows (in 2, balance 2) and (out 1, balance 1)
C18_Witness ==
  /\ Len(store.permissions) = 2
  /\ store.permissions[1] = Perm(1, "return", 1, TRUE, Now,
                                 << Line(1, 2), Line(2, 1) >>)
  /\ store.permissions[2] = Perm(2, "transfer", MaxDay, TRUE, Now,
                                 << Line(1, 1) >>)
  /\ \A card \in getItemCard(1) :
       /\ [k \in DOMAIN card.rows |->
             << card.rows[k].in, card.rows[k].out, card.rows[k].balance >>]
            = << << 2, 0, 2 >>, << 0, 1, 1 >> >>
       /\ card.balance = 1
  /\ \A card \in getItemCard(3) : card.rows = << >> /\ card.balance = 0

\* the filters of the claim on unparseable bounds
BoundFilters ==
  [fromDate : {DateNone, DateBad} \cup Days,
   toDate : {DateNone, DateBad} \cup Days,
   filterPermType : {NoType, "addition"},
   filterItemId : {NoItem, 1}, filterGroup : {NoGroup}]

\* C19: a fromDate or toDate that is non-empty and does not parse as a date
\* excludes no permission: computeBalances returns the mapping it returns
\* without that bound.
C19_BadBoundExcludesNothing ==
  \A f \in BoundFilters :
    /\ f.fromDate = DateBad =>
         computeBalances(f) = computeBalances([f EXCEPT !.fromDate = DateNone])
    /\ f.toDate = DateBad =>
         computeBalances(f) = computeBalances([f EXCEPT !.toDate = DateNone])

\* additions of 1 for item 1 on the first and on the last day: an
\* unparseable fromDate counts both, and leaves toDate its effect
C19_Witness ==
  /\ Len(store.permissions) = 2
  /\ store.permissions[1].date = 1 /\ store.permissions[2].date = MaxDay
  /\ \A k \in 1..2 : /\ store.permissions[k].type = "addition"
                     /\ store.permissions[k].lines = << Line(1, 1) >>
  /\ computeBalances([NoFilters EXCEPT !.fromDate = DateBad])[1] = 2
  /\ computeBalances([NoFilters EXCEPT !.toDate = DateBad])[1] = 2
  /\ computeBalances([NoFilters EXCEPT !.fromDate = DateBad, !.toDate = 1])[1] = 1

\* C20: date ranges are additive: for dates a <= b < c, every posted
\* permission having a parseable date, the balance of every item over
\* [a, b] plus its balance over [b + 1 day, c] is its balance over [a, c].
C20_RangesAdditive ==
  AllDatesParse(store) =>
    \A a, b, c \in Midnights :
      (a <= b /\ b < c) =>
        LET Over(from, to) ==
              computeBalances([NoFilters EXCEPT !.fromDate = from, !.toDate = to])
        IN \A id \in 1..(2 + MaxNewItems) :
             ValueOr0(Over(a, b), id) + ValueOr0(Over(b + DayLength, c), id)
               = ValueOr0(Over(a, c), id)

====
